---------------------------- MODULE Spec2Model ----------------------------
(***************************************************************************)
(* ValveEntityWrapper (custom_components/meross_cloud/climate.py): the     *)
(* adapter that mirrors a Meross radiator valve into a climate entity.     *)
(*                                                                         *)
(* The adapter's mirrored fields are the variables.  The device handle,    *)
(* the vendor SDK and the host are the environment: status snapshots,      *)
(* push events, command requests and callback results are drawn from small *)
(* sample sets, and what the adapter asks of them in a step (calls on the  *)
(* handle, host refresh requests, log lines, an escaping exception) is     *)
(* recorded in `last`.  A handler runs as one step, except update(), which *)
(* waits inside get_status() while push events and callbacks are handled.  *)
(*                                                                         *)
(* Python values: None is the empty tuple and a value v is <<v>>.  A       *)
(* float obtained as float(n)/10 from an integer n of tenths of a degree   *)
(* is the pair [deg, tenth] of its decimal expansion (215 -> 21.5).        *)
(***************************************************************************)
EXTENDS Integers, Sequences, FiniteSets, TLC

VARIABLES
    devType,              \* self._device.type, fixed for the device
    is_online,            \* self._is_online
    is_on,                \* self._is_on
    device_mode,          \* self._device_mode
    current_temperature,  \* self._current_temperature
    target_temperature,   \* self._target_temperature
    heating,              \* self._heating
    pcUpdate,             \* position of update(): "idle", or "get_status" while
                          \* it waits for the device's answer at line 59
    pending,              \* callbacks handed to turn_on that the SDK has not invoked yet
    evt_since,            \* a push event or callback ran since update() called get_status
    foreign_evt,          \* a mode-change event carried something else than a member
                          \* of the device variant's enumeration
    last                  \* what the handler that just ran asked of the handle, the
                          \* host and the log; Quiet once its caller has taken it

vars == <<devType, is_online, is_on, device_mode, current_temperature,
          target_temperature, heating, pcUpdate, pending, evt_since,
          foreign_evt, last>>

mirrored == <<is_on, device_mode, current_temperature, target_temperature, heating>>

---------------------------------------------------------------------------
(* Bounds and sample inputs *)

\* callbacks the SDK may hold at once
MaxPending == 1
\* the wire temperatures, in tenths of a degree: 215, 220, ... (TenthsSpan steps)
TenthsSpan == 1

Tenths == {215 + 5 * k : k \in 0 .. TenthsSpan}

None == <<>>
Some(v) == <<v>>

---------------------------------------------------------------------------
(* The two vendor enumerations (meross_iot ... thermostats) *)

V3(n) == [enum |-> "ThermostatV3Mode", name |-> n]
Legacy(n) == [enum |-> "ThermostatMode", name |-> n]

\* [e.name for e in ThermostatV3Mode], in definition order
V3Names == <<"AUTO", "COOL", "CUSTOM", "ECONOMY", "HEAT">>
\* [e.name for e in ThermostatMode]
LegacyNames == <<"COMFORT", "CUSTOM", "ECONOMY", "SCHEDULE">>

Range(s) == {s[i] : i \in DOMAIN s}

ThermostatV3Mode == {V3(n) : n \in Range(V3Names)}
ThermostatMode == {Legacy(n) : n \in Range(LegacyNames)}

\* ThermostatV3Mode(value): the member with that value, None standing for ValueError
V3ByValue(v) ==
    CASE v = 0 -> Some(V3("CUSTOM"))
      [] v = 1 -> Some(V3("HEAT"))
      [] v = 2 -> Some(V3("COOL"))
      [] v = 3 -> Some(V3("AUTO"))
      [] v = 4 -> Some(V3("ECONOMY"))
      [] OTHER -> None

\* ThermostatMode(value)
LegacyByValue(v) ==
    CASE v = 0 -> Some(Legacy("CUSTOM"))
      [] v = 1 -> Some(Legacy("COMFORT"))
      [] v = 2 -> Some(Legacy("ECONOMY"))
      [] v = 3 -> Some(Legacy("SCHEDULE"))
      [] OTHER -> None

\* ThermostatV3Mode[name] / ThermostatMode[name]: None standing for KeyError
V3ByName(n) == IF n \in Range(V3Names) THEN Some(V3(n)) ELSE None
LegacyByName(n) == IF n \in Range(LegacyNames) THEN Some(Legacy(n)) ELSE None

DeviceTypes == {"mts100v3", "mts100", "mts150"}

\* float(n) / 10
Tenth(n) == [deg |-> n \div 10, tenth |-> n % 10]


---------------------------------------------------------------------------
(* What a step asks of its environment *)

Call(method, param) == [method |-> method, param |-> param]

\* op: the handler; calls: the handle's methods it invoked, in order; sched:
\* the force_refresh argument of each async_schedule_update_ha_state; log:
\* the levels it logged; raised: an exception left it.  For update(),
\* answer: how get_status() ended; raced: an event or callback was handled
\* while it waited; lost: and it replaced a field they write
Effects(op, calls, sched, log, raised) ==
    [op |-> op, calls |-> calls, sched |-> sched, log |-> log, raised |-> raised,
     answer |-> <<>>, raced |-> FALSE, lost |-> FALSE]

Quiet == Effects("none", <<>>, <<>>, <<>>, FALSE)

---------------------------------------------------------------------------
(* update() *)

Mirror ==
    [is_online |-> is_online, is_on |-> is_on, device_mode |-> device_mode,
     current_temperature |-> current_temperature,
     target_temperature |-> target_temperature, heating |-> heating]

\* The payloads get_status() returns: a dict whose entries may be absent
\* (None).  What follows an absent entry is never read, so it is left None.
Temperatures ==
    {[room |-> Some(r), currentSet |-> Some(c), heating |-> h] :
        r \in Tenths, c \in Tenths, h \in {0, 1}}
    \cup {[room |-> Some(r), currentSet |-> None, heating |-> 0] : r \in Tenths}
    \cup {[room |-> None, currentSet |-> None, heating |-> 0]}

\* raw mode values on the wire: CUSTOM, AUTO / SCHEDULE, and a value that is
\* a member of neither enumeration
RawModes == {0, 3, 5}

StatusPayloads ==
    {[togglex |-> Some(o), mode |-> Some(v), temperature |-> Some(t)] :
        o \in {0, 1}, v \in RawModes, t \in Temperatures}
    \cup {[togglex |-> Some(o), mode |-> Some(v), temperature |-> None] :
        o \in {0, 1}, v \in RawModes}
    \cup {[togglex |-> Some(o), mode |-> None, temperature |-> None] : o \in {0, 1}}
    \cup {[togglex |-> None, mode |-> None, temperature |-> None]}

\* How get_status() ends: it raises, or it returns payload with
\* self._device.online = online.  Off line nothing of the payload is read.
NoPayload == [togglex |-> None, mode |-> None, temperature |-> None]
StatusResults ==
    {[raises |-> TRUE, online |-> FALSE, payload |-> NoPayload],
     [raises |-> FALSE, online |-> FALSE, payload |-> NoPayload]}
    \cup {[raises |-> FALSE, online |-> TRUE, payload |-> s] : s \in StatusPayloads}

\* lines 66-71: the member for a raw value; ok = FALSE stands for ValueError
DecodeMode(type, v) ==
    IF type = "mts100v3" THEN [ok |-> V3ByValue(v) # None, mode |-> V3ByValue(v), warn |-> FALSE]
    ELSE IF type = "mts100" THEN [ok |-> LegacyByValue(v) # None, mode |-> LegacyByValue(v), warn |-> FALSE]
    ELSE [ok |-> TRUE, mode |-> None, warn |-> TRUE]

\* the except clause, lines 77-80
UpdateExcept(m, log) ==
    [m |-> [m EXCEPT !.is_online = FALSE], log |-> log \o <<"error">>]

\* lines 73-76 on the temperature entry
UpdateTemperature(m, temp, log) ==
    IF temp = None \/ temp[1].room = None THEN UpdateExcept(m, log)
    ELSE LET m4 == [m EXCEPT !.current_temperature = Some(Tenth(temp[1].room[1]))] IN
         IF temp[1].currentSet = None THEN UpdateExcept(m4, log)
         ELSE [m |-> [m4 EXCEPT !.target_temperature = Some(Tenth(temp[1].currentSet[1])),
                                !.heating = Some(temp[1].heating = 1)],
               log |-> log]

\* lines 60-80, statement by statement, on mirrored fields m with the
\* payload s and self._device.online = online
UpdateBody(m, s, online, type) ==
    LET m1 == [m EXCEPT !.is_online = online] IN
    IF ~online THEN [m |-> m1, log |-> <<>>]
    ELSE IF s.togglex = None THEN UpdateExcept(m1, <<>>)
    ELSE LET m2 == [m1 EXCEPT !.is_on = Some(s.togglex[1] = 1)] IN
         IF s.mode = None THEN UpdateExcept(m2, <<>>)
         ELSE LET d == DecodeMode(type, s.mode[1])
                  log == IF d.warn THEN <<"warning">> ELSE <<>>
                  m3 == IF d.warn THEN m2 ELSE [m2 EXCEPT !.device_mode = d.mode]
              IN IF ~d.ok THEN UpdateExcept(m2, log)
                 ELSE UpdateTemperature(m3, s.temperature, log)

SetMirror(m) ==
    /\ is_online' = m.is_online
    /\ is_on' = m.is_on
    /\ device_mode' = m.device_mode
    /\ current_temperature' = m.current_temperature
    /\ target_temperature' = m.target_temperature
    /\ heating' = m.heating

\* line 59: update() calls get_status() and waits for the answer
update_call ==
    /\ last = Quiet
    /\ pcUpdate = "idle"
    /\ pcUpdate' = "get_status"
    /\ evt_since' = FALSE
    /\ last' = Effects("update", <<Call("get_status", None)>>, <<>>, <<>>, FALSE)
    /\ UNCHANGED <<devType, is_online, mirrored, pending, foreign_evt>>

\* the fields an event or a callback writes
Raceable(m) == <<m.device_mode, m.current_temperature, m.target_temperature, m.heating>>

\* lines 58-80 on the mirrored fields m, get_status() ending as res
UpdateOutcome(m, res, type) ==
    IF res.raises THEN UpdateExcept(m, <<>>)
    ELSE UpdateBody(m, res.payload, res.online, type)

\* update() with a guard it does not have: once an event or a callback has
\* written the mirror while it waited, it keeps what they wrote
update_return_KeepsNewer(res) ==
    /\ last = Quiet
    /\ pcUpdate = "get_status"
    /\ LET r == UpdateOutcome(Mirror, res, devType)
           kept == IF evt_since
                   THEN [r.m EXCEPT !.device_mode = device_mode,
                                    !.current_temperature = current_temperature,
                                    !.target_temperature = target_temperature,
                                    !.heating = heating]
                   ELSE r.m IN
          /\ SetMirror(kept)
          /\ last' = [Effects("update", <<>>, <<>>, r.log, FALSE) EXCEPT
                         !.answer = Some(res),
                         !.raced = evt_since,
                         !.lost = evt_since /\ Raceable(kept) # Raceable(Mirror)]
    /\ pcUpdate' = "idle"
    /\ evt_since' = FALSE
    /\ UNCHANGED <<devType, pending, foreign_evt>>

\* lines 59-80 from the moment get_status() ends as res
update_return(res) ==
    /\ last = Quiet
    /\ pcUpdate = "get_status"
    /\ LET r == UpdateOutcome(Mirror, res, devType) IN
          /\ SetMirror(r.m)
          /\ last' = [Effects("update", <<>>, <<>>, r.log, FALSE) EXCEPT
                         !.answer = Some(res),
                         !.raced = evt_since,
                         !.lost = evt_since /\ Raceable(r.m) # Raceable(Mirror)]
    /\ pcUpdate' = "idle"
    /\ evt_since' = FALSE
    /\ UNCHANGED <<devType, pending, foreign_evt>>

\* __init__, lines 33-39: every field None, then one update()
Unset ==
    [is_online |-> FALSE, is_on |-> None, device_mode |-> None,
     current_temperature |-> None, target_temperature |-> None, heating |-> None]

Init ==
    /\ devType \in DeviceTypes
    /\ \E res \in StatusResults :
          LET r == UpdateOutcome(Unset, res, devType) IN
          /\ is_online = r.m.is_online
          /\ is_on = r.m.is_on
          /\ device_mode = r.m.device_mode
          /\ current_temperature = r.m.current_temperature
          /\ target_temperature = r.m.target_temperature
          /\ heating = r.m.heating
    /\ last = Quiet
    /\ pcUpdate = "idle"
    /\ pending = <<>>
    /\ evt_since = FALSE
    /\ foreign_evt = FALSE

---------------------------------------------------------------------------
(* device_event_handler(evt) *)

\* the enumeration of a hardware variant; an unrecognized variant has none
ModesOf(type) ==
    IF type = "mts100v3" THEN ThermostatV3Mode
    ELSE IF type = "mts100" THEN ThermostatMode
    ELSE {}

TemperatureChange(room, currentSet, h) ==
    [kind |-> "ThermostatTemperatureChange",
     temperature |-> [room |-> room, currentSet |-> currentSet, heating |-> h],
     mode |-> None]
ModeChange(mode) ==
    [kind |-> "ThermostatModeChange",
     temperature |-> [room |-> 0, currentSet |-> 0, heating |-> 0],
     mode |-> Some(mode)]
OtherEvent ==
    [kind |-> "Other",
     temperature |-> [room |-> 0, currentSet |-> 0, heating |-> 0],
     mode |-> None]

\* the members the source names stand for the modes an event may carry
EventModes == {V3("AUTO"), V3("CUSTOM"), Legacy("SCHEDULE"), Legacy("CUSTOM")}

Events ==
    {TemperatureChange(r, c, h) : r \in Tenths, c \in Tenths, h \in {0, 1}}
    \cup {ModeChange(m) : m \in EventModes}
    \cup {OtherEvent}

\* the handler with room and currentSet taken for each other
device_event_handler_Swapped(evt) ==
    /\ last = Quiet
    /\ IF evt.kind = "ThermostatTemperatureChange" THEN
          /\ current_temperature' = Some(Tenth(evt.temperature.currentSet))
          /\ target_temperature' = Some(Tenth(evt.temperature.room))
          /\ heating' = Some(evt.temperature.heating = 1)
          /\ UNCHANGED device_mode
       ELSE IF evt.kind = "ThermostatModeChange" THEN
          /\ device_mode' = evt.mode
          /\ UNCHANGED <<current_temperature, target_temperature, heating>>
       ELSE UNCHANGED <<device_mode, current_temperature, target_temperature, heating>>
    /\ last' = Effects("device_event_handler", <<>>, <<FALSE>>,
                       IF evt.kind \in {"ThermostatTemperatureChange", "ThermostatModeChange"}
                       THEN <<>> ELSE <<"warning">>, FALSE)
    /\ evt_since' = (evt_since \/ (pcUpdate = "get_status" /\ evt.kind # "Other"))
    /\ foreign_evt' = (foreign_evt \/ (evt.kind = "ThermostatModeChange"
                                        /\ evt.mode[1] \notin ModesOf(devType)))
    /\ UNCHANGED <<devType, is_online, is_on, pcUpdate, pending>>

\* lines 41-51
device_event_handler(evt) ==
    /\ last = Quiet
    /\ IF evt.kind = "ThermostatTemperatureChange" THEN
          /\ current_temperature' = Some(Tenth(evt.temperature.room))
          /\ target_temperature' = Some(Tenth(evt.temperature.currentSet))
          /\ heating' = Some(evt.temperature.heating = 1)
          /\ UNCHANGED device_mode
       ELSE IF evt.kind = "ThermostatModeChange" THEN
          /\ device_mode' = evt.mode
          /\ UNCHANGED <<current_temperature, target_temperature, heating>>
       ELSE UNCHANGED <<device_mode, current_temperature, target_temperature, heating>>
    /\ last' = Effects("device_event_handler", <<>>, <<FALSE>>,
                       IF evt.kind \in {"ThermostatTemperatureChange", "ThermostatModeChange"}
                       THEN <<>> ELSE <<"warning">>, FALSE)
    /\ evt_since' = (evt_since \/ (pcUpdate = "get_status" /\ evt.kind # "Other"))
    /\ foreign_evt' = (foreign_evt \/ (evt.kind = "ThermostatModeChange"
                                        /\ evt.mode[1] \notin ModesOf(devType)))
    /\ UNCHANGED <<devType, is_online, is_on, pcUpdate, pending>>

---------------------------------------------------------------------------
(* The getters *)

\* `not x` / `elif x` on an optional boolean
Truthy(x) == x = Some(TRUE)

\* lines 86-93
hvac_action ==
    IF ~Truthy(is_on) THEN "off"
    ELSE IF Truthy(heating) THEN "heating"
    ELSE "idle"

\* hvac_mode looking at the mode before the power flag
hvac_mode_ModeFirst ==
    IF device_mode = Some(V3("AUTO")) THEN "auto"
    ELSE IF device_mode = Some(Legacy("SCHEDULE")) THEN "auto"
    ELSE IF ~Truthy(is_on) THEN "off"
    ELSE "heat"

\* lines 95-108
hvac_mode ==
    IF ~Truthy(is_on) THEN "off"
    ELSE IF device_mode = Some(V3("AUTO")) THEN "auto"
    ELSE IF device_mode = Some(V3("CUSTOM")) THEN "heat"
    ELSE IF device_mode = Some(Legacy("SCHEDULE")) THEN "auto"
    ELSE IF device_mode = Some(Legacy("CUSTOM")) THEN "heat"
    ELSE "heat"

\* lines 221-229; PRESET_NONE is "none"
preset_modes ==
    IF device_mode # None /\ device_mode[1] \in ThermostatV3Mode THEN V3Names
    ELSE IF device_mode # None /\ device_mode[1] \in ThermostatMode THEN LegacyNames
    ELSE <<"none">>

---------------------------------------------------------------------------
(* The commands *)

\* the host's requests
TargetTemperatures == {Tenth(n) : n \in Tenths}
HvacModes == {"off", "heat", "auto", "cool"}
PresetNames == {"AUTO", "CUSTOM", "ECONOMY", "SCHEDULE"}

\* lines 145-147; raises: the handle's method raises
set_temperature(temperature, raises) ==
    /\ last = Quiet
    /\ last' = Effects("set_temperature", <<Call("set_target_temperature", Some(temperature))>>, <<>>, <<>>, raises)
    /\ UNCHANGED <<devType, is_online, mirrored, pcUpdate, pending, evt_since, foreign_evt>>

\* the mapping with heat and auto taken for each other
MappedMode_Swapped(type, requested) ==
    IF type = "mts100v3" THEN
        IF requested = "heat" THEN Some(V3("AUTO"))
        ELSE IF requested = "auto" THEN Some(V3("CUSTOM"))
        ELSE None
    ELSE IF type = "mts100" THEN
        IF requested = "heat" THEN Some(Legacy("SCHEDULE"))
        ELSE IF requested = "auto" THEN Some(Legacy("CUSTOM"))
        ELSE None
    ELSE None

\* the mapping with every variant but mts100v3 taken for an mts100
MappedMode_AnyType(type, requested) ==
    IF type = "mts100v3" THEN
        IF requested = "heat" THEN Some(V3("CUSTOM"))
        ELSE IF requested = "auto" THEN Some(V3("AUTO"))
        ELSE None
    ELSE
        IF requested = "heat" THEN Some(Legacy("CUSTOM"))
        ELSE IF requested = "auto" THEN Some(Legacy("SCHEDULE"))
        ELSE None

\* lines 159-196: the member the callback of turn_on is to set, None when
\* the request falls through to a warning
MappedMode(type, requested) ==
    IF type = "mts100v3" THEN
        IF requested = "heat" THEN Some(V3("CUSTOM"))
        ELSE IF requested = "auto" THEN Some(V3("AUTO"))
        ELSE None
    ELSE IF type = "mts100" THEN
        IF requested = "heat" THEN Some(Legacy("CUSTOM"))
        ELSE IF requested = "auto" THEN Some(Legacy("SCHEDULE"))
        ELSE None
    ELSE None

\* lines 153-157
set_hvac_mode_off(raises) ==
    /\ IF raises THEN
          /\ last' = Effects("set_hvac_mode", <<Call("turn_off", None)>>, <<>>, <<>>, TRUE)
          /\ UNCHANGED is_on
       ELSE
          /\ is_on' = Some(FALSE)
          /\ last' = Effects("set_hvac_mode", <<Call("turn_off", None)>>, <<FALSE>>, <<>>, FALSE)
    /\ UNCHANGED <<devType, is_online, device_mode, current_temperature,
                   target_temperature, heating, pcUpdate, pending,
                   evt_since, foreign_evt>>

\* lines 159-196 for a request other than off
set_hvac_mode_on(requested, raises) ==
    LET member == MappedMode(devType, requested) IN
    /\ IF member = None THEN
          /\ last' = Effects("set_hvac_mode", <<>>, <<>>, <<"warning">>, FALSE)
          /\ UNCHANGED <<is_on, pending>>
       ELSE IF raises THEN
          /\ last' = Effects("set_hvac_mode", <<Call("turn_on", member)>>, <<>>, <<>>, TRUE)
          /\ UNCHANGED <<is_on, pending>>
       ELSE
          /\ Len(pending) < MaxPending
          /\ pending' = Append(pending, member[1])
          /\ is_on' = Some(TRUE)
          /\ last' = Effects("set_hvac_mode", <<Call("turn_on", member)>>, <<>>, <<>>, FALSE)
    /\ UNCHANGED <<devType, is_online, device_mode, current_temperature,
                   target_temperature, heating, pcUpdate, evt_since, foreign_evt>>

\* lines 149-196
set_hvac_mode(requested, raises) ==
    /\ last = Quiet
    /\ IF requested = "off" THEN set_hvac_mode_off(raises)
       ELSE set_hvac_mode_on(requested, raises)

Remove(s, i) == [j \in 1 .. (Len(s) - 1) |-> IF j < i THEN s[j] ELSE s[j + 1]]

\* the closure without its test of error
action_IgnoresError(i, error, raises) ==
    /\ last = Quiet
    /\ i \in DOMAIN pending
    /\ pending' = Remove(pending, i)
    /\ IF raises THEN
          /\ last' = Effects("action", <<Call("set_mode", Some(pending[i]))>>, <<>>, <<>>, TRUE)
          /\ UNCHANGED <<device_mode, evt_since>>
       ELSE
          /\ device_mode' = Some(pending[i])
          /\ evt_since' = (evt_since \/ pcUpdate = "get_status")
          /\ last' = Effects("action", <<Call("set_mode", Some(pending[i]))>>, <<>>, <<>>, FALSE)
    /\ UNCHANGED <<devType, is_online, is_on, current_temperature,
                   target_temperature, heating, pcUpdate, foreign_evt>>

\* the closure `action(error, response)` of lines 161-164 (169-172, 180-183,
\* 187-190), invoked by the SDK for the i-th turn_on still waiting;
\* error: it is called with an error; raises: set_mode raises
action(i, error, raises) ==
    /\ last = Quiet
    /\ i \in DOMAIN pending
    /\ pending' = Remove(pending, i)
    /\ IF error THEN
          /\ last' = Effects("action", <<>>, <<>>, <<>>, FALSE)
          /\ UNCHANGED <<device_mode, evt_since>>
       ELSE IF raises THEN
          /\ last' = Effects("action", <<Call("set_mode", Some(pending[i]))>>, <<>>, <<>>, TRUE)
          /\ UNCHANGED <<device_mode, evt_since>>
       ELSE
          /\ device_mode' = Some(pending[i])
          /\ evt_since' = (evt_since \/ pcUpdate = "get_status")
          /\ last' = Effects("action", <<Call("set_mode", Some(pending[i]))>>, <<>>, <<>>, FALSE)
    /\ UNCHANGED <<devType, is_online, is_on, current_temperature,
                   target_temperature, heating, pcUpdate, foreign_evt>>

\* the lookup with the mts100 branch a copy of the mts100v3 one
PresetMember_AlwaysV3(type, preset_mode) == V3ByName(preset_mode)

\* lines 200-205: the member looked up by name in the variant's enumeration
PresetMember(type, preset_mode) ==
    IF type = "mts100v3" THEN V3ByName(preset_mode) ELSE LegacyByName(preset_mode)

\* set_preset_mode mirroring the mode before it calls the handle
set_preset_mode_MirrorFirst(preset_mode, raises) ==
    /\ last = Quiet
    /\ IF devType \notin {"mts100v3", "mts100"} THEN
          /\ last' = Effects("set_preset_mode", <<>>, <<>>, <<"warning">>, FALSE)
          /\ UNCHANGED device_mode
       ELSE LET member == PresetMember(devType, preset_mode) IN
          IF member = None THEN
             /\ last' = Effects("set_preset_mode", <<>>, <<>>, <<>>, TRUE)
             /\ UNCHANGED device_mode
          ELSE
             /\ device_mode' = member
             /\ last' = Effects("set_preset_mode", <<Call("set_mode", member)>>, <<>>, <<>>, raises)
    /\ UNCHANGED <<devType, is_online, is_on, current_temperature,
                   target_temperature, heating, pcUpdate, pending,
                   evt_since, foreign_evt>>

\* set_preset_mode without its else branch: any other variant is an mts100
set_preset_mode_NoTypeCheck(preset_mode, raises) ==
    /\ last = Quiet
    /\ LET member == PresetMember(devType, preset_mode) IN
          IF member = None THEN
             /\ last' = Effects("set_preset_mode", <<>>, <<>>, <<>>, TRUE)
             /\ UNCHANGED device_mode
          ELSE IF raises THEN
             /\ last' = Effects("set_preset_mode", <<Call("set_mode", member)>>, <<>>, <<>>, TRUE)
             /\ UNCHANGED device_mode
          ELSE
             /\ device_mode' = member
             /\ last' = Effects("set_preset_mode", <<Call("set_mode", member)>>, <<>>, <<>>, FALSE)
    /\ UNCHANGED <<devType, is_online, is_on, current_temperature,
                   target_temperature, heating, pcUpdate, pending,
                   evt_since, foreign_evt>>

\* lines 198-207
set_preset_mode(preset_mode, raises) ==
    /\ last = Quiet
    /\ IF devType \notin {"mts100v3", "mts100"} THEN
          /\ last' = Effects("set_preset_mode", <<>>, <<>>, <<"warning">>, FALSE)
          /\ UNCHANGED device_mode
       ELSE LET member == PresetMember(devType, preset_mode) IN
          IF member = None THEN
             /\ last' = Effects("set_preset_mode", <<>>, <<>>, <<>>, TRUE)
             /\ UNCHANGED device_mode
          ELSE IF raises THEN
             /\ last' = Effects("set_preset_mode", <<Call("set_mode", member)>>, <<>>, <<>>, TRUE)
             /\ UNCHANGED device_mode
          ELSE
             /\ device_mode' = member
             /\ last' = Effects("set_preset_mode", <<Call("set_mode", member)>>, <<>>, <<>>, FALSE)
    /\ UNCHANGED <<devType, is_online, is_on, current_temperature,
                   target_temperature, heating, pcUpdate, pending,
                   evt_since, foreign_evt>>

---------------------------------------------------------------------------

\* the handler returns: its caller has what it asked for (the log line is
\* written, the exception is the caller's, the host has the request)
handler_returns ==
    /\ last # Quiet
    /\ last' = Quiet
    /\ UNCHANGED <<devType, is_online, mirrored, pcUpdate, pending, evt_since, foreign_evt>>

Next ==
    \/ update_call
    \/ \E res \in StatusResults : update_return(res)
    \/ \E evt \in Events : device_event_handler(evt)
    \/ \E t \in TargetTemperatures, raises \in BOOLEAN : set_temperature(t, raises)
    \/ \E requested \in HvacModes, raises \in BOOLEAN : set_hvac_mode(requested, raises)
    \/ \E i \in 1 .. MaxPending, error \in BOOLEAN, raises \in BOOLEAN : action(i, error, raises)
    \/ \E name \in PresetNames, raises \in BOOLEAN : set_preset_mode(name, raises)
    \/ handler_returns

Spec == Init /\ [][Next]_vars

---------------------------------------------------------------------------
(* The claims *)

Recognized == {"mts100v3", "mts100"}

\* C1: a refresh that raises (get_status fails, an entry of the payload is
\* absent, the mode value is no member) sets availability false and changes no
\* other mirrored field.
C1_RaisingRefreshChangesNothingElse ==
    [][(last'.op = "update" /\ "error" \in Range(last'.log))
          => \A res \in StatusResults :
                update_return(res) => (is_online' = FALSE /\ UNCHANGED mirrored)]_vars

\* C2: whenever the mirrored power flag is off, hvac_action and hvac_mode are
\* both the off value, whatever the other mirrored fields are.
C2_OffShowsOff ==
    is_on = Some(FALSE) => (hvac_action = "off" /\ hvac_mode = "off")

\* C2 happens: set_hvac_mode has turned the power off while the mode is AUTO
\* and the valve is heating
C2_Witness ==
    /\ last.op = "set_hvac_mode"
    /\ is_on = Some(FALSE)
    /\ heating = Some(TRUE)
    /\ device_mode = Some(V3("AUTO"))

\* the member the claims name for a variant and a requested host mode
ClaimedMember(type, requested) ==
    CASE type = "mts100v3" /\ requested = "heat" -> V3("CUSTOM")
      [] type = "mts100v3" /\ requested = "auto" -> V3("AUTO")
      [] type = "mts100" /\ requested = "heat" -> Legacy("CUSTOM")
      [] type = "mts100" /\ requested = "auto" -> Legacy("SCHEDULE")

\* C3 as stated: once the callback of a heat / auto request has been invoked,
\* the handle has received set_mode with the mapped member exactly once.
C3_SetModeExactlyOnce ==
    [][last'.op = "action"
          => \A i \in 1 .. MaxPending, error \in BOOLEAN, raises \in BOOLEAN :
                action(i, error, raises)
                    => last'.calls = <<Call("set_mode", Some(pending[i]))>>]_vars

\* C3 amended: a heat / auto request on a recognized variant calls turn_on
\* once, handing it the callback for the variant's mapped member, and no
\* set_mode; the callback, which the SDK invokes at most once, calls set_mode
\* with that member exactly once when it is invoked without an error and not
\* at all when it is invoked with one.
C3_SetModeOncePerSuccessfulCallback ==
    [][/\ (last'.op = "set_hvac_mode" /\ devType \in Recognized) =>
            \A requested \in {"heat", "auto"}, raises \in BOOLEAN :
               set_hvac_mode(requested, raises)
                => /\ last'.calls = <<Call("turn_on", Some(ClaimedMember(devType, requested)))>>
                   /\ pending' = IF raises THEN pending
                                 ELSE Append(pending, ClaimedMember(devType, requested))
       /\ last'.op = "action" =>
            \A i \in 1 .. MaxPending, error \in BOOLEAN, raises \in BOOLEAN :
               action(i, error, raises)
                => /\ Len(pending') = Len(pending) - 1
                   /\ last'.calls = IF error THEN <<>>
                                    ELSE <<Call("set_mode", Some(pending[i]))>>]_vars

\* C3 happens: on an mts100v3 the callback of a heat request has set CUSTOM
C3_Witness ==
    /\ devType = "mts100v3"
    /\ last.op = "action"
    /\ last.calls = <<Call("set_mode", Some(V3("CUSTOM")))>>
    /\ is_on = Some(TRUE)

\* C4 as stated: every command (set target temperature, set operating mode,
\* set preset mode) calls the handle and then updates the mirrored field it
\* is about, without waiting for a refresh or a push event.
C4_EveryCommandUpdatesMirror ==
    [][/\ last'.op = "set_temperature" =>
            \A temperature \in TargetTemperatures :
               set_temperature(temperature, FALSE)
                => target_temperature' = Some(temperature)
       /\ last'.op = "set_hvac_mode" =>
            (set_hvac_mode("off", FALSE) => is_on' = Some(FALSE))
       /\ (last'.op = "set_preset_mode" /\ devType \in Recognized) =>
            \A name \in PresetNames :
               (set_preset_mode(name, FALSE) /\ PresetMember(devType, name) # None)
                => device_mode' = PresetMember(devType, name)]_vars

\* C4 amended: set operating mode and set preset mode call the handle first
\* and then update the mirrored field (power flag, operating mode) in the
\* same call: the field is updated when the handle's method returns and left
\* alone when it raises.  Set target temperature only forwards the value to
\* the handle and changes no mirrored field.
C4_SideEffectThenMirror ==
    [][/\ last'.op = "set_temperature" =>
            \A temperature \in TargetTemperatures, raises \in BOOLEAN :
               set_temperature(temperature, raises)
                => /\ last'.calls = <<Call("set_target_temperature", Some(temperature))>>
                   /\ UNCHANGED mirrored
       /\ last'.op = "set_hvac_mode" =>
            \A raises \in BOOLEAN :
               set_hvac_mode("off", raises)
                => /\ last'.calls = <<Call("turn_off", None)>>
                   /\ is_on' = IF raises THEN is_on ELSE Some(FALSE)
       /\ (last'.op = "set_hvac_mode" /\ devType \in Recognized) =>
            \A requested \in {"heat", "auto"}, raises \in BOOLEAN :
               set_hvac_mode(requested, raises)
                => /\ Len(last'.calls) = 1 /\ last'.calls[1].method = "turn_on"
                   /\ is_on' = IF raises THEN is_on ELSE Some(TRUE)
       /\ (last'.op = "set_preset_mode" /\ devType \in Recognized) =>
            \A name \in PresetNames, raises \in BOOLEAN :
               (set_preset_mode(name, raises) /\ PresetMember(devType, name) # None)
                => /\ last'.calls = <<Call("set_mode", PresetMember(devType, name))>>
                   /\ device_mode' = IF raises THEN device_mode
                                     ELSE PresetMember(devType, name)]_vars

\* C4 happens: set_temperature has forwarded a target that the mirror does not show
C4_Witness ==
    /\ last.op = "set_temperature"
    /\ ~last.raised
    /\ target_temperature # last.calls[1].param

\* C5 as stated: set_hvac_mode with any requested mode on an unrecognized
\* variant, or with a mode other than off / heat / auto on a recognized one,
\* logs a warning, calls nothing on the handle and changes no mirrored field.
C5_UnsupportedDoesNothing ==
    [][last'.op = "set_hvac_mode" =>
        \A requested \in HvacModes, raises \in BOOLEAN :
          (set_hvac_mode(requested, raises)
              /\ (devType \notin Recognized \/ requested \notin {"off", "heat", "auto"}))
              => /\ last'.log = <<"warning">>
                 /\ last'.calls = <<>>
                 /\ UNCHANGED <<is_online, mirrored, pending>>]_vars

\* C5 amended: set_hvac_mode with a requested mode other than off on an
\* unrecognized variant, or with a mode other than off / heat / auto on a
\* recognized one, logs a warning, calls nothing on the handle and changes no
\* mirrored field.
C5_UnsupportedOnRequestDoesNothing ==
    [][last'.op = "set_hvac_mode" =>
        \A requested \in HvacModes \ {"off"}, raises \in BOOLEAN :
          (set_hvac_mode(requested, raises)
              /\ (devType \notin Recognized \/ requested \notin {"heat", "auto"}))
              => /\ last'.log = <<"warning">>
                 /\ last'.calls = <<>>
                 /\ ~last'.raised
                 /\ UNCHANGED <<is_online, mirrored, pending>>]_vars

\* C5 happens: a request on an unrecognized variant ended in a warning
C5_Witness ==
    /\ devType \notin Recognized
    /\ last.op = "set_hvac_mode"
    /\ last.log = <<"warning">>

\* x is the float n / 10
IsTenthOf(x, n) ==
    /\ x # None
    /\ 10 * x[1].deg + x[1].tenth = n
    /\ x[1].tenth \in 0 .. 9

\* C6: a temperature-change event with room = R, currentSet = S, heating = H
\* leaves the mirrored current temperature R / 10, the target S / 10, the
\* heating flag true exactly when H = 1, the power flag and the mode as they
\* were, and asks the host for one state refresh, not forced.
C6_TemperatureEvent ==
    [][last'.op = "device_event_handler" =>
        \A r \in Tenths, c \in Tenths, h \in {0, 1} :
          device_event_handler(TemperatureChange(r, c, h))
              => /\ IsTenthOf(current_temperature', r)
                 /\ IsTenthOf(target_temperature', c)
                 /\ heating' = Some(h = 1)
                 /\ UNCHANGED <<is_on, device_mode>>
                 /\ last'.sched = <<FALSE>>]_vars

\* C6 happens: the event room = 215, currentSet = 220, heating = 1 was handled
C6_Witness ==
    /\ last.op = "device_event_handler"
    /\ current_temperature = Some([deg |-> 21, tenth |-> 5])
    /\ target_temperature = Some([deg |-> 22, tenth |-> 0])
    /\ heating = Some(TRUE)
    /\ last.sched = <<FALSE>>

\* C7: on an unrecognized variant set_preset_mode never calls set_mode,
\* leaves the mirrored mode as it was and logs a warning, whatever the name.
C7_PresetOnUnknownVariant ==
    [][(last'.op = "set_preset_mode" /\ devType \notin Recognized) =>
        \A name \in PresetNames, raises \in BOOLEAN :
          set_preset_mode(name, raises)
              => /\ last'.calls = <<>>
                 /\ UNCHANGED device_mode
                 /\ last'.log = <<"warning">>]_vars

\* C7 happens: set_preset_mode ran on an unrecognized variant
C7_Witness ==
    /\ devType \notin Recognized
    /\ last.op = "set_preset_mode"
    /\ last.log = <<"warning">>

\* C8: a heat / auto request on a recognized variant marks power on as soon
\* as turn_on is issued and leaves the mirrored mode alone; the mode becomes
\* the mapped member, and set_mode is called, only when the callback is
\* invoked without an error; invoked with an error it changes nothing.
C8_PowerNowModeOnCallback ==
    [][/\ (last'.op = "set_hvac_mode" /\ devType \in Recognized) =>
            \A requested \in {"heat", "auto"} :
               set_hvac_mode(requested, FALSE)
                => /\ is_on' = Some(TRUE)
                   /\ UNCHANGED device_mode
                   /\ \A k \in DOMAIN last'.calls : last'.calls[k].method # "set_mode"
                   /\ pending'[Len(pending')] = ClaimedMember(devType, requested)
       /\ last'.op = "action" =>
            \A i \in 1 .. MaxPending, raises \in BOOLEAN :
            /\ action(i, TRUE, raises)
                 => (UNCHANGED <<is_online, mirrored>> /\ last'.calls = <<>>)
            /\ action(i, FALSE, raises)
                 => /\ last'.calls = <<Call("set_mode", Some(pending[i]))>>
                    /\ device_mode' = IF raises THEN device_mode ELSE Some(pending[i])]_vars

\* C8 happens: power is on, the callback has not run, the mode is not yet the mapped member
C8_Witness ==
    /\ is_on = Some(TRUE)
    /\ last.op = "set_hvac_mode"
    /\ pending # <<>>
    /\ device_mode # Some(pending[1])

\* get_status() ended with an answer update() reads to its last line
Complete(res, type) ==
    /\ ~res.raises
    /\ res.online
    /\ res.payload.togglex # None
    /\ res.payload.mode # None
    /\ DecodeMode(type, res.payload.mode[1]).ok
    /\ res.payload.temperature # None
    /\ res.payload.temperature[1].room # None
    /\ res.payload.temperature[1].currentSet # None

\* C9: nothing orders an update() in flight and the push events and callbacks
\* handled meanwhile; the last write wins: an update() whose get_status() was
\* called before an event or callback wrote the mirror still writes its own
\* answer over the current temperature, target, heating flag and mode.
C9_LastWriteWins ==
    (last.op = "update" /\ last.raced /\ last.answer # None
        /\ Complete(last.answer[1], devType))
        => LET payload == last.answer[1].payload IN
           /\ IsTenthOf(current_temperature, payload.temperature[1].room[1])
           /\ IsTenthOf(target_temperature, payload.temperature[1].currentSet[1])
           /\ heating = Some(payload.temperature[1].heating = 1)
           /\ devType \in Recognized
                => device_mode = DecodeMode(devType, payload.mode[1]).mode

\* C9 happens: update() has replaced what an event or callback wrote while it waited
C9_Witness ==
    /\ last.op = "update"
    /\ last.lost

\* C10: as long as no mode-change event carried anything but a member of the
\* variant's enumeration, the mirrored mode is None or a member of the
\* enumeration of the device's variant, and preset_modes is that
\* enumeration's names, or the "none" placeholder while the mode is None.
C10_ModeOfVariant ==
    ~foreign_evt =>
        \/ device_mode = None /\ preset_modes = <<"none">>
        \/ /\ device_mode # None
           /\ devType = "mts100v3" => device_mode[1].enum = "ThermostatV3Mode"
           /\ devType = "mts100" => device_mode[1].enum = "ThermostatMode"
           /\ devType \in Recognized
           /\ Range(preset_modes) = {m.name : m \in ModesOf(devType)}
           /\ Len(preset_modes) = Cardinality(ModesOf(devType))

\* C10 happens: an mts100 mirrors a member of its enumeration, set by name
C10_Witness ==
    /\ devType = "mts100"
    /\ ~foreign_evt
    /\ device_mode = Some(Legacy("ECONOMY"))
    /\ last.op = "set_preset_mode"

===========================================================================
